---- MODULE Spec2Model ----
(***************************************************************************)
(* ScreenCapper (ScreenCap.py): the batch driver process_videos, the two   *)
(* detectors and the promotion of the working directories into the        *)
(* per-video output directory, as a state machine over a small file       *)
(* system.                                                                 *)
(*                                                                         *)
(* A directory is a set of files; a file is a record [name, of]: `name'    *)
(* is the tuple the code formats into the file name (<<"frame", k>> for    *)
(* frame_k.jpg, <<"anime_face", k, i>> for anime_face_k_i.jpg) and `of'    *)
(* is the image it holds, identified by the video and the position of the  *)
(* decoded frame it was taken from.                                        *)
(***************************************************************************)
EXTENDS Integers, Sequences, FiniteSets, TLC

\* ------------------------------------------------------------------ bounds
MaxFrames == 3

MaxVideos == 2

\* --------------------------------------------------------------- constants
\* conf >= 0.5, in tenths
Threshold == 5

\* ------------------------------------------------------------- environment
VideoExtensions == {".mp4", ".avi", ".mkv"}

\* str.lower() on the extensions that occur in the input directory
Lower(ext) == IF ext = ".MKV" THEN ".mkv" ELSE ext

\* the entries the input directory may hold
InputFiles ==
    { [stem |-> "a", ext |-> ".mp4"],
      [stem |-> "a", ext |-> ".avi"],
      [stem |-> "b", ext |-> ".MKV"],
      [stem |-> "notes", ext |-> ".txt"] }

Stems == {f.stem : f \in InputFiles}

\* what a decoded frame makes the two detection backends answer:
\* boxes = the confidences (tenths) of results[0].boxes in the model's order,
\* locs = the number of face_locations, bad = the backend raises on it
Plain == [kind |-> "plain", boxes |-> <<>>, locs |-> 0, bad |-> FALSE]

Crowd == [kind |-> "crowd", boxes |-> <<4, 9, 5>>, locs |-> 2, bad |-> FALSE]

Malformed == [kind |-> "malformed", boxes |-> <<>>, locs |-> 0, bad |-> TRUE]

FrameKinds == {Plain, Crowd, Malformed}

\* cap.read() returns (False, None) once no frame can be decoded
NoFrame == [kind |-> "none", boxes |-> <<>>, locs |-> 0, bad |-> TRUE]

\* the declared CAP_PROP_FRAME_COUNT may be anything
HintChoices == {0, MaxFrames + 1}

PriorVideo == [stem |-> "a", ext |-> ".old"]

File(name, video, index) == [name |-> name, of |-> [video |-> video, index |-> index]]

Names(dir) == {e.name : e \in dir}

\* what an earlier run may have left in Work/screencaps and Work/faces
LeftScreencaps == { {}, {File(<<"frame", 0>>, PriorVideo, 0)} }

LeftFaces == { {}, {File(<<"realistic_face", 0, 0>>, PriorVideo, 0)} }

NoDir == [present |-> FALSE, files |-> {}]

NoOutput == [exists |-> FALSE, screencaps |-> NoDir, faces |-> NoDir]

PriorOutput ==
    [exists |-> TRUE,
     screencaps |-> [present |-> TRUE, files |-> {File(<<"frame", 0>>, PriorVideo, 0)}],
     faces |-> [present |-> TRUE, files |-> {}]]

\* sequences of distinct entries, as os.listdir returns them
RECURSIVE Listings(_)
Listings(n) ==
    IF n = 0 THEN {<<>>}
    ELSE LET shorter == Listings(n - 1)
         IN shorter \cup
            { Append(l, f) : l \in {s \in shorter : Len(s) = n - 1},
                             f \in InputFiles }

Distinct(l) == \A i, j \in 1..Len(l) : i # j => l[i] # l[j]

InputListings == {l \in Listings(MaxVideos) : Distinct(l)}

VARIABLES
    pc,             \* position in the script
    missing,        \* check_dependencies: whether the list `missing' is non-empty
    yolo_model,     \* "loaded" once line 72 has returned
    error,          \* what ended the run early, "none" otherwise
    mode,           \* "Realistic" | "Anime", "unset" before __main__
    input_listing,  \* os.listdir(input_dir)
    video_files,    \* process_videos: the filtered listing
    vi,             \* index in video_files of the video being processed
    cap,            \* cv2.VideoCapture: [opened, pos, stopped], pos = frames read so far,
                    \* stopped = why cap.read() returned ret = False
    frame,          \* the frame cap.read() returned last
    frame_count,
    total_frames,
    screencaps,     \* Work/screencaps
    faces,          \* Work/faces
    out,            \* output/<stem> for each stem
    footage,        \* the frames cap has yielded for the current video
    detected        \* the list the detector returned last

vars == <<pc, missing, yolo_model, error, mode, input_listing, video_files, vi, cap, frame, frame_count,
          total_frames, screencaps, faces, out, footage, detected>>

NoCap == [opened |-> FALSE, pos |-> 0, stopped |-> "no"]

video_file == video_files[vi]

Init ==
    /\ pc = "check_dependencies"
    /\ missing = FALSE
    /\ yolo_model = "unloaded"
    /\ error = "none"
    /\ mode = "unset"
    /\ input_listing \in InputListings
    /\ video_files = <<>>
    /\ vi = 0
    /\ cap = NoCap
    /\ frame = NoFrame
    /\ frame_count = 0
    /\ total_frames = 0
    /\ screencaps \in LeftScreencaps
    /\ faces \in LeftFaces
    /\ out \in {[s \in Stems |-> IF s = "a" THEN o ELSE NoOutput] : o \in {NoOutput, PriorOutput}}
    /\ footage = <<>>
    /\ detected = <<>>

\* an uncaught exception: the interpreter prints the traceback and exits
Raise(kind) ==
    /\ pc' = "crashed"
    /\ error' = kind

\* ------------------------------------------------------------------ startup
\* a dependency check that reports and goes on
NeverExits(found) == FALSE

\* lines 42-48: exit(1) when a package is missing
ExitsOnMissing(found) == found

CheckDependencies ==
    /\ pc = "check_dependencies"
    /\ \E found \in BOOLEAN :
          /\ missing' = found
          /\ IF ExitsOnMissing(found)
             THEN /\ pc' = "exited"
                  /\ error' = "StartupDependencyMissing"
             ELSE /\ pc' = "load_model"
                  /\ error' = error
    /\ UNCHANGED <<mode, input_listing, video_files, vi, cap, frame, frame_count,
                   total_frames, screencaps, faces, out, footage, detected>>
    /\ UNCHANGED yolo_model

\* line 72: YOLO(yolo_model_path) raises when the weights cannot be loaded
LoadModel ==
    /\ pc = "load_model"
    /\ \E loadable \in BOOLEAN :
          IF loadable
          THEN /\ pc' = "main"
               /\ yolo_model' = "loaded"
               /\ error' = error
          ELSE /\ Raise("ModelLoadFailure")
               /\ yolo_model' = yolo_model
    /\ UNCHANGED <<mode, input_listing, video_files, vi, cap, frame, frame_count,
                   total_frames, screencaps, faces, out, footage, detected>>
    /\ UNCHANGED missing

IsVideo(f) == Lower(f.ext) \in VideoExtensions

Main ==
    /\ pc = "main"
    /\ \E mode_choice \in {"1", "2", "3"} :
          IF mode_choice \in {"1", "2"}
          THEN /\ mode' = (IF mode_choice = "1" THEN "Realistic" ELSE "Anime")
               /\ video_files' = SelectSeq(input_listing, IsVideo)
               /\ IF video_files' = <<>>
                  THEN /\ pc' = "finished"
                       /\ vi' = vi
                  ELSE /\ pc' = "reset"
                       /\ vi' = 1
               /\ error' = error
          ELSE /\ pc' = "exited"
               /\ error' = "InvalidInput"
               /\ UNCHANGED <<mode, video_files, vi>>
    /\ UNCHANGED <<input_listing, cap, frame, frame_count, total_frames, screencaps,
                   faces, out, footage, detected>>
    /\ UNCHANGED <<missing, yolo_model>>

\* ------------------------------------------------------------ workspace reset
\* a reset that forgets Work/faces in the list of line 133
UnlinkedScreencapsOnly(dir) == {e \in dir : e.name[1] = "frame"}

\* a reset that removes one entry for each call
UnlinkedOne(dir) == IF dir = {} THEN {} ELSE {CHOOSE e \in dir : TRUE}

\* a reset that forgets Work/screencaps in the list of line 133
UnlinkedFacesOnly(dir) == {e \in dir : e.name[1] # "frame"}

\* lines 134-135: the entries of one working directory the loop unlinks
Unlinked(dir) == dir

\* os.unlink raises only on an entry this run did not write itself (a
\* subdirectory, a file of another owner)
Foreign(e) == e.of.video = PriorVideo

\* what is left of a directory when os.unlink raises in it: the entry that
\* raised and any of the others (os.listdir fixes no order)
Stuck(dir) == {kept \in SUBSET dir : \E e \in kept : Foreign(e)}

\* lines 133-135: every way the two loops can end. An exception in
\* Work/screencaps leaves Work/faces as it was.
ClearOutcomes(sc, fc) ==
    {[screencaps |-> sc \ Unlinked(sc), faces |-> fc \ Unlinked(fc), ok |-> TRUE]}
    \cup {[screencaps |-> kept, faces |-> fc, ok |-> FALSE] : kept \in Stuck(sc)}
    \cup {[screencaps |-> sc \ Unlinked(sc), faces |-> kept, ok |-> FALSE] :
             kept \in Stuck(fc)}

ClearWorkingDirs ==
    /\ pc = "reset"
    /\ \E r \in ClearOutcomes(screencaps, faces) :
          /\ screencaps' = r.screencaps
          /\ faces' = r.faces
          /\ IF r.ok
             THEN /\ pc' = "open"
                  /\ error' = error
             ELSE Raise("WorkspaceResetFailure")
    /\ UNCHANGED <<mode, input_listing, video_files, vi, cap, frame, frame_count,
                   total_frames, out, footage, detected>>
    /\ UNCHANGED <<missing, yolo_model>>

\* ------------------------------------------------------------------ streaming
OpenVideo ==
    /\ pc = "open"
    /\ \E opened \in BOOLEAN, hint \in HintChoices :
          /\ cap' = [opened |-> opened, pos |-> 0, stopped |-> "no"]
          /\ total_frames' = hint
    /\ frame_count' = 0
    /\ footage' = <<>>
    /\ detected' = <<>>
    /\ pc' = "read"
    /\ UNCHANGED <<error, mode, input_listing, video_files, vi, frame, screencaps,
                   faces, out>>
    /\ UNCHANGED <<missing, yolo_model>>

\* cv2.imwrite: a file of that name is replaced
Put(dir, f) == {e \in dir : e.name # f.name} \cup {f}

PutAll(dir, fs) == {e \in dir : e.name \notin Names(fs)} \cup fs

\* a screenshot named after the next frame
ScreencapNameNext(count) == <<"frame", count + 1>>

\* line 149
ScreencapName(count) == <<"frame", count>>

\* a loop bounded by the declared frame count
ContinuesByHint(opened, hint, count) == opened /\ count < hint

\* line 143: while cap.isOpened()
Continues(opened, hint, count) == opened

\* what cap.read() can meet: a frame, the end of the file, or data it cannot
\* decode
ReadOutcomes(pos) ==
    (IF pos < MaxFrames THEN {"frame"} ELSE {}) \cup {"end", "undecodable"}

\* a cap.read() that raises on data it cannot decode
ReadRaisesUndecodable(outcome) == outcome = "undecodable"

\* line 144: cap.read() reports every failure through ret, it does not raise
ReadRaises(outcome) == FALSE

\* lines 143-150: the loop test and cap.read(), then either the break and
\* cap.release() or the full-frame screenshot of the frame just read
ReadFrame ==
    /\ pc = "read"
    /\ IF ~Continues(cap.opened, total_frames, frame_count)
       THEN /\ cap' = [cap EXCEPT !.opened = FALSE]
            /\ pc' = "makedirs"
            /\ UNCHANGED <<error, frame, footage, screencaps>>
       ELSE \E outcome \in ReadOutcomes(cap.pos) :
               IF ReadRaises(outcome)
               THEN /\ Raise("FrameDecodeFailure")
                    /\ UNCHANGED <<cap, frame, footage, screencaps>>
               ELSE IF outcome = "frame"
               THEN \E f \in FrameKinds :
                       /\ frame' = f
                       /\ footage' = Append(footage, f)
                       /\ cap' = [cap EXCEPT !.pos = @ + 1]
                       /\ screencaps' =
                             Put(screencaps,
                                 File(ScreencapName(frame_count), video_file, cap.pos))
                       /\ pc' = "detect"
                       /\ error' = error
               ELSE /\ frame' = NoFrame
                    /\ cap' = [cap EXCEPT !.opened = FALSE, !.stopped = outcome]
                    /\ pc' = "makedirs"
                    /\ UNCHANGED <<error, footage, screencaps>>
    /\ UNCHANGED <<mode, input_listing, video_files, vi, frame_count,
                   total_frames, faces, out, detected>>
    /\ UNCHANGED <<missing, yolo_model>>

\* a strict comparison with the threshold
KeepsAbove(conf) == conf > Threshold

\* line 103
Keeps(conf) == conf >= Threshold

\* file names without the frame index
detect_faces_realistic_unnumbered(fr, count) ==
    [i \in 1..fr.locs |-> <<"realistic_face", 0, i - 1>>]

\* lines 83-87: the output paths, in enumerate order
detect_faces_realistic(fr, count) ==
    [i \in 1..fr.locs |-> <<"realistic_face", count, i - 1>>]

\* lines 100-107: i is the position among all boxes, kept or not
detect_faces_anime(fr, count) ==
    LET Kept(i) == Keeps(fr.boxes[i])
        positions == SelectSeq([i \in 1..Len(fr.boxes) |-> i], Kept)
    IN [j \in 1..Len(positions) |-> <<"anime_face", count, positions[j] - 1>>]

\* a loop that forgets the increment
SameFrameCount(count) == count

\* line 158
NextFrameCount(count) == count + 1

Range(s) == {s[i] : i \in 1..Len(s)}

DetectFaces ==
    /\ pc = "detect"
    /\ IF frame.bad
       THEN /\ Raise("DetectionFailure")
            /\ UNCHANGED <<faces, detected, frame_count>>
       ELSE LET paths == IF mode = "Realistic"
                         THEN detect_faces_realistic(frame, frame_count)
                         ELSE detect_faces_anime(frame, frame_count)
            IN /\ faces' = PutAll(faces, {File(p, video_file, cap.pos - 1) : p \in Range(paths)})
               /\ detected' = paths
               /\ frame_count' = NextFrameCount(frame_count)
               /\ pc' = "read"
               /\ error' = error
    /\ UNCHANGED <<mode, input_listing, video_files, vi, cap, frame, total_frames,
                   screencaps, out, footage>>
    /\ UNCHANGED <<missing, yolo_model>>

\* ------------------------------------------------------------------ promotion
\* line 164: os.path.splitext(video_file)[0]
video_output_dir == video_file.stem

\* a promotion that starts from a fresh output directory
MakeOutputDirFresh ==
    /\ pc = "makedirs"
    /\ out' = [out EXCEPT ![video_output_dir] =
                               [exists |-> TRUE, screencaps |-> NoDir, faces |-> NoDir]]
    /\ pc' = "copy_screencaps"
    /\ UNCHANGED <<error, mode, input_listing, video_files, vi, cap, frame, frame_count,
                   total_frames, screencaps, faces, footage, detected>>
    /\ UNCHANGED <<missing, yolo_model>>

\* line 165: os.makedirs(video_output_dir, exist_ok=True)
MakeOutputDir ==
    /\ pc = "makedirs"
    /\ out' = [out EXCEPT ![video_output_dir].exists = TRUE]
    /\ pc' = "copy_screencaps"
    /\ UNCHANGED <<error, mode, input_listing, video_files, vi, cap, frame, frame_count,
                   total_frames, screencaps, faces, footage, detected>>
    /\ UNCHANGED <<missing, yolo_model>>

\* shutil.copytree(..., dirs_exist_ok=True)
CopytreeMerges(dest) == FALSE

\* shutil.copytree without dirs_exist_ok: FileExistsError when dest_dir exists
CopytreeRaisesExists(dest) == dest.present

\* shutil.move in the place of shutil.copytree
SourceAfterMove(src) == {}

\* shutil.copytree reads src_dir and leaves it as it is
SourceAfterCopytree(src) == src

\* line 170: every way one copytree can end. It creates dest_dir, copies the
\* entries, and when an entry cannot be copied it goes on with the others and
\* raises at the end.
CopytreeOutcomes(src, dest) ==
    IF CopytreeRaisesExists(dest)
    THEN {[src |-> src, dest |-> dest, ok |-> FALSE]}
    ELSE {[src |-> SourceAfterCopytree(src),
           dest |-> [present |-> TRUE, files |-> PutAll(dest.files, src)],
           ok |-> TRUE]}
         \cup {[src |-> SourceAfterCopytree(src),
                dest |-> [present |-> TRUE, files |-> PutAll(dest.files, src \ {lost})],
                ok |-> FALSE] : lost \in src}

CopyScreencaps ==
    /\ pc = "copy_screencaps"
    /\ \E r \in CopytreeOutcomes(screencaps, out[video_output_dir].screencaps) :
          /\ screencaps' = r.src
          /\ out' = [out EXCEPT ![video_output_dir].screencaps = r.dest]
          /\ IF r.ok
             THEN /\ pc' = "copy_faces"
                  /\ error' = error
             ELSE Raise("PromotionFailure")
    /\ UNCHANGED <<mode, input_listing, video_files, vi, cap, frame, frame_count,
                   total_frames, faces, footage, detected>>
    /\ UNCHANGED <<missing, yolo_model>>

\* a loop that takes the same entry again
SameVideo(i) == i

\* line 127: the for loop moves to the next entry of video_files
NextVideo(i) == i + 1

\* the second copytree, then line 172 and the next iteration of line 127
CopyFaces ==
    /\ pc = "copy_faces"
    /\ \E r \in CopytreeOutcomes(faces, out[video_output_dir].faces) :
          /\ faces' = r.src
          /\ out' = [out EXCEPT ![video_output_dir].faces = r.dest]
          /\ IF r.ok
             THEN /\ error' = error
                  /\ IF vi < Len(video_files)
                     THEN /\ vi' = NextVideo(vi)
                          /\ pc' = "reset"
                     ELSE /\ vi' = vi
                          /\ pc' = "finished"
             ELSE /\ Raise("PromotionFailure")
                  /\ vi' = vi
    /\ UNCHANGED <<mode, input_listing, video_files, cap, frame, frame_count,
                   total_frames, screencaps, footage, detected>>
    /\ UNCHANGED <<missing, yolo_model>>

Next ==
    \/ CheckDependencies
    \/ LoadModel
    \/ Main
    \/ ClearWorkingDirs
    \/ OpenVideo
    \/ ReadFrame
    \/ DetectFaces
    \/ MakeOutputDir
    \/ CopyScreencaps
    \/ CopyFaces

Spec == Init /\ [][Next]_vars

\* ===================================================================== claims
\* the states in which the working directories belong to video_file: from the
\* first cap.read() to the end of its promotion, or to the exception that ended
\* the run in between
InVideo ==
    \/ pc \in {"read", "detect", "makedirs", "copy_screencaps", "copy_faces"}
    \/ pc = "crashed" /\ error \in {"DetectionFailure", "PromotionFailure"}

Exhausted ==
    \/ pc \in {"makedirs", "copy_screencaps", "copy_faces"}
    \/ pc = "crashed" /\ error = "PromotionFailure"

RegionsOfFrame(k) == {e \in faces : e.name[2] = k}

OrdinalsOfFrame(k) == {e.name[3] : e \in RegionsOfFrame(k)}

\* the number of regions the selected detector returns for a frame
ReturnedCount(fr) ==
    IF mode = "Realistic"
    THEN fr.locs
    ELSE Cardinality({i \in 1..Len(fr.boxes) : fr.boxes[i] >= Threshold})

\* C1: when the frame source of a video has yielded N frames, Work/screencaps
\* holds exactly N images, frame_k holding the k-th frame for k = 0..N-1; at
\* exhaustion N is the number of decodable frames of the video.
C1_SnapshotsContiguous ==
    InVideo =>
        /\ screencaps = {File(<<"frame", k>>, video_file, k) : k \in 0..(cap.pos - 1)}
        /\ Cardinality(screencaps) = cap.pos
        /\ Exhausted => Len(footage) = cap.pos /\ frame_count = cap.pos

C1_Witness ==
    /\ pc = "makedirs"
    /\ cap.pos = MaxFrames
    /\ Cardinality(screencaps) = MaxFrames

\* C2: for every frame the detector was run on, the number of region images in
\* Work/faces equals the number of regions the detector returned for it; in
\* Anime mode that is the number of boxes with conf >= 0.5, conf = 0.5 included.
C2_RegionCount ==
    InVideo =>
        /\ \A k \in 0..(frame_count - 1) :
              Cardinality(RegionsOfFrame(k)) = ReturnedCount(footage[k + 1])
        /\ \A e \in faces : e.name[2] < frame_count
        /\ frame_count > 0 => Len(detected) = ReturnedCount(footage[frame_count])

C2_Witness ==
    /\ mode = "Anime"
    /\ pc = "read"
    /\ frame_count > 0
    /\ footage[frame_count] = Crowd
    /\ Cardinality(RegionsOfFrame(frame_count - 1)) = 2

\* C3: in either mode the k region images written for a frame carry the
\* ordinals 0..k-1.
C3_OrdinalsFromZero ==
    InVideo =>
        \A k \in 0..(frame_count - 1) :
            OrdinalsOfFrame(k) = 0..(ReturnedCount(footage[k + 1]) - 1)

\* C4: a detector failure on a frame does not abort the video.
C4_DetectorFailureSkipped == ~(pc = "crashed" /\ error = "DetectionFailure")

\* C5: a reset failure or a promotion failure on one video does not keep the
\* batch driver from the remaining videos.
C5_BatchContinues ==
    (pc = "crashed" /\ error \in {"WorkspaceResetFailure", "PromotionFailure"})
        => vi = Len(video_files)

\* C6: while a video is promoted, and after its promotion failed, the output
\* directory of its stem holds all the files of the video or none of them.
C6_PromotionAtomic ==
    (\/ pc \in {"copy_screencaps", "copy_faces"}
     \/ pc = "crashed" /\ error = "PromotionFailure")
        => LET o == out[video_output_dir]
               promoted == {e \in o.screencaps.files \cup o.faces.files :
                              e.of.video = video_file}
           IN \/ promoted = {}
              \/ /\ o.screencaps.files = screencaps
                 /\ o.faces.files = faces

\* C7: a file that is in an output directory stays there as it is: the
\* promotion of a later video with the same stem does not replace it.
C7_NoOverwrite ==
    [][\A s \in Stems :
          /\ out[s].screencaps.files \subseteq out'[s].screencaps.files
          /\ out[s].faces.files \subseteq out'[s].faces.files]_vars

C7_Witness ==
    /\ pc = "crashed"
    /\ error = "PromotionFailure"
    /\ vi = 2
    /\ video_files[1].stem = video_files[2].stem
    /\ out[video_output_dir].screencaps.files # {}
    /\ \A e \in out[video_output_dir].screencaps.files : e.of.video = video_files[1]

\* C8: when the frame source of a video is opened both working directories are
\* empty, and while the video is processed they hold no file of another video
\* or run; after a failed reset no frame source is opened.
C8_EmptyAtOpen ==
    /\ pc = "open" => screencaps = {} /\ faces = {}
    /\ InVideo => \A e \in screencaps \cup faces : e.of.video = video_file
    /\ error = "WorkspaceResetFailure" => pc = "crashed"

C8_Witness ==
    /\ pc = "open"
    /\ vi = 2
    /\ out[video_files[1].stem].screencaps.files # {}
    /\ out[video_files[1].stem].faces.files # {}

Empty == [screencaps |-> {}, faces |-> {}, ok |-> TRUE]

\* C9: the reset of empty working directories succeeds and leaves them empty,
\* and a reset after a reset that succeeded changes nothing.
C9_ResetIdempotent ==
    /\ [][pc = "reset" /\ screencaps = {} /\ faces = {}
             => pc' = "open" /\ screencaps' = {} /\ faces' = {}]_vars
    /\ [](/\ ClearOutcomes({}, {}) = {Empty}
          /\ \A r \in ClearOutcomes(screencaps, faces) :
                r.ok => ClearOutcomes(r.screencaps, r.faces) = {r})

\* the second video is about to be opened after a reset of directories the
\* first video, which had no frame, left empty
C9_Witness ==
    /\ pc = "open"
    /\ vi = 2
    /\ out[video_files[1].stem].screencaps.present
    /\ out[video_files[1].stem].screencaps.files = {}

\* the files the streaming of video_file wrote into Work/faces
WrittenFaces ==
    UNION { {File(p, video_file, k - 1) :
                p \in Range(IF mode = "Realistic"
                            THEN detect_faces_realistic(footage[k], k - 1)
                            ELSE detect_faces_anime(footage[k], k - 1))} :
            k \in 1..frame_count }

C11_DecodeFailureEndsStreaming ==
    /\ [][(pc = "read" /\ pc' = "makedirs" /\ cap'.stopped = "undecodable")
             => /\ error' = "none"
                /\ vi' = vi
                /\ frame_count' = cap.pos
                /\ screencaps' = {File(<<"frame", k>>, video_file, k) : k \in 0..(cap.pos - 1)}]_vars
    /\ [](error # "FrameDecodeFailure")
    /\ []((pc = "crashed" /\ cap.stopped = "undecodable") => error = "PromotionFailure")

\* the first video stopped on undecodable data after two frames, was promoted
\* with two screenshots, and the second video is about to be reset
C11_Witness ==
    /\ pc = "reset"
    /\ vi = 2
    /\ error = "none"
    /\ cap.stopped = "undecodable"
    /\ cap.pos = 2
    /\ Names(out[video_files[1].stem].screencaps.files) = {<<"frame", 0>>, <<"frame", 1>>}

StreamingPcs == {"open", "read", "detect"}

PromotionPcs == {"makedirs", "copy_screencaps", "copy_faces"}

\* C12: the entries of video_files are distinct and taken in order, one at a
\* time; for each the steps are reset, streaming, promotion, in that order; the
\* reset of the next video follows the second copytree of this one; and the
\* working directories never hold files of two videos.
C12_Sequential ==
    /\ [](Distinct(video_files))
    /\ [](\A e1, e2 \in screencaps \cup faces : e1.of.video = e2.of.video)
    /\ [][/\ vi' \in {vi, vi + 1}
          /\ (vi' # vi) => \/ pc = "main" /\ pc' = "reset"
                           \/ /\ pc = "copy_faces" /\ pc' = "reset"
                              /\ out'[video_file.stem].screencaps.present
                              /\ out'[video_file.stem].faces.present
          /\ (pc' = "reset") => (pc \in {"main", "copy_faces"} /\ vi' = vi + 1)
          /\ (pc' = "open") => pc = "reset"
          /\ (pc' = "read") => pc \in {"open", "detect"}
          /\ (pc' = "detect") => pc = "read"
          /\ (pc' = "makedirs") => pc = "read"
          /\ (pc' = "copy_screencaps") => pc = "makedirs"
          /\ (pc' = "copy_faces") => pc = "copy_screencaps"
          /\ (pc' = "finished") => pc \in {"main", "copy_faces"}
          /\ (pc \in StreamingPcs \cup PromotionPcs) => video_files' = video_files]_vars

\* the second video is streamed after the first was promoted
C12_Witness ==
    /\ pc = "detect"
    /\ vi = 2
    /\ out[video_files[1].stem].faces.present
    /\ out[video_files[1].stem].screencaps.files # {}
    /\ \A e \in screencaps : e.of.video = video_files[2]

JobPcs ==
    {"reset", "open", "read", "detect", "makedirs", "copy_screencaps", "copy_faces"}

\* C13: a video is reset, decoded or promoted only after check_dependencies
\* found nothing missing and the model was loaded; a run that ends on a missing
\* dependency or model has taken no video and written nothing.
C13_StartupFirst ==
    /\ (pc \in JobPcs \/ vi > 0) => (~missing /\ yolo_model = "loaded")
    /\ missing => pc = "exited"
    /\ (missing \/ yolo_model # "loaded") =>
          /\ pc \in {"check_dependencies", "load_model", "exited", "crashed"}
          /\ vi = 0
          /\ video_files = <<>>
          /\ cap = NoCap
          /\ screencaps \in LeftScreencaps
          /\ faces \in LeftFaces
          /\ \A s \in Stems : out[s] \in {NoOutput, PriorOutput}

\* the model could not be loaded and the two videos of the input directory
\* were not touched
C13_Witness ==
    /\ pc = "crashed"
    /\ error = "ModelLoadFailure"
    /\ Len(SelectSeq(input_listing, IsVideo)) = 2
    /\ vi = 0

\* the videos whose promotion has succeeded
Promoted(j) == j < vi \/ (j = vi /\ pc = "finished")

OutputFiles(j) ==
    out[video_files[j].stem].screencaps.files \cup out[video_files[j].stem].faces.files

\* C14: once a video is promoted, its output directory holds files of that
\* video only, and right after the promotion exactly the files its streaming
\* left in the working directories: frame_k of its k-th frame for each frame
\* decoded, and the regions written for them.
C14_OutputIsolated ==
    \A j \in 1..Len(video_files) :
        Promoted(j) =>
            /\ out[video_files[j].stem].screencaps.present
            /\ out[video_files[j].stem].faces.present
            /\ \A e \in OutputFiles(j) : e.of.video = video_files[j]
            /\ ((pc = "reset" /\ j = vi - 1) \/ (pc = "finished" /\ j = vi)) =>
                  /\ out[video_files[j].stem].screencaps.files = screencaps
                  /\ out[video_files[j].stem].faces.files = faces
                  /\ screencaps =
                        {File(<<"frame", k>>, video_files[j], k) : k \in 0..(cap.pos - 1)}

\* both videos are promoted, each with files of its own
C14_Witness ==
    /\ pc = "finished"
    /\ vi = 2
    /\ out[video_files[1].stem].faces.files # {}
    /\ out[video_files[2].stem].faces.files # {}
    /\ out[video_files[2].stem].screencaps.files # {}

EachRegionHasSnapshot == \A e \in faces : \E sn \in screencaps : sn.name[2] = e.name[2]

\* C15 as stated, for every reachable state: no step of the run leads from a
\* state in which each region file of Work/faces has a screenshot of the same
\* frame index in Work/screencaps to a state in which one has none.
C15_AlwaysRegionHasSnapshot ==
    [][EachRegionHasSnapshot => EachRegionHasSnapshot']_vars

\* the states between the reset that succeeded for a video and the reset for
\* the next one
SinceReset ==
    \/ pc \in StreamingPcs \cup PromotionPcs
    \/ pc = "crashed" /\ error \in {"DetectionFailure", "PromotionFailure"}
    \/ pc = "reset" /\ vi > 1
    \/ pc = "finished" /\ vi > 0

\* C15 (amended): when the detector is called for a frame its screenshot is
\* written and no region of it is; so between the reset that succeeded for a
\* video and the reset for the next one, and after an exception of the detector
\* or of the promotion, each region file of Work/faces has a screenshot of the
\* same frame index in Work/screencaps.
C15_RegionHasSnapshot ==
    /\ SinceReset => EachRegionHasSnapshot
    /\ (pc = "detect" \/ (pc = "crashed" /\ error = "DetectionFailure")) =>
          /\ <<"frame", frame_count>> \in Names(screencaps)
          /\ RegionsOfFrame(frame_count) = {}

\* the detector raised on the second frame after regions were written for
\* the first
C15_Witness ==
    /\ pc = "crashed"
    /\ error = "DetectionFailure"
    /\ frame_count = 1
    /\ RegionsOfFrame(0) # {}
    /\ Cardinality(screencaps) = 2

\* C16: from the reset of a video to the end of its promotion no file of the
\* working directories is removed or replaced, and every write adds a file
\* under a name that was not there: one screenshot for each frame read, one
\* region file for each path the detector returns.
C16_AppendOnly ==
    /\ [][(pc \in StreamingPcs \cup PromotionPcs)
             => (screencaps \subseteq screencaps' /\ faces \subseteq faces')]_vars
    /\ [][(pc = "read" /\ pc' = "detect")
             => /\ Cardinality(screencaps') = Cardinality(screencaps) + 1
                /\ Cardinality(Names(screencaps')) = Cardinality(screencaps')]_vars
    /\ [][(pc = "detect" /\ pc' = "read")
             => /\ Cardinality(faces') = Cardinality(faces) + Len(detected')
                /\ Cardinality(Names(faces')) = Cardinality(faces')]_vars

\* two frames with two regions each
C16_Witness ==
    /\ mode = "Realistic"
    /\ pc = "read"
    /\ frame_count = 2
    /\ Cardinality(faces) = 4
    /\ Cardinality(screencaps) = 2

\* lines 143-159 as a function of the frames of the video and of the declared
\* frame count: the names written into Work/screencaps and Work/faces, the
\* final frame_count, and whether the detector raised
RECURSIVE StreamFrom(_, _, _, _)
StreamFrom(frames, hint, i, st) ==
    IF i > Len(frames) \/ ~Continues(TRUE, hint, st.frame_count)
    THEN st
    ELSE LET shots == st.screencaps \cup {ScreencapName(st.frame_count)}
             paths == IF mode = "Realistic"
                      THEN detect_faces_realistic(frames[i], st.frame_count)
                      ELSE detect_faces_anime(frames[i], st.frame_count)
         IN IF frames[i].bad
            THEN [st EXCEPT !.screencaps = shots, !.raised = TRUE]
            ELSE StreamFrom(frames, hint, i + 1,
                            [frame_count |-> NextFrameCount(st.frame_count),
                             screencaps |-> shots,
                             faces |-> st.faces \cup Range(paths),
                             raised |-> FALSE])

Stream(frames, hint) ==
    StreamFrom(frames, hint, 1,
               [frame_count |-> 0, screencaps |-> {}, faces |-> {}, raised |-> FALSE])

\* C17: for the frames a video yields, the streaming gives the same file names,
\* the same frame_count and the same end (promotion or exception) for every
\* declared frame count (0, the number of frames read so far, more than the
\* real count), and they are those of the run with the declared count it has.
\* The frames change when one is read, and the files when the detector has
\* returned or raised.
C17_HintNotUsed ==
    /\ pc = "detect" =>
          LET r == Stream(footage, total_frames)
          IN \A hint \in (HintChoices \cup {Len(footage)}) \ {total_frames} :
                Stream(footage, hint) = r
    /\ (pc \in {"read", "makedirs"} \/ (pc = "crashed" /\ error = "DetectionFailure")) =>
          LET r == Stream(footage, total_frames)
          IN /\ r.screencaps = Names(screencaps)
             /\ r.faces = Names(faces)
             /\ r.frame_count = frame_count
             /\ r.raised = (pc = "crashed")

\* a video of MaxFrames frames declared as having none was streamed to its end
C17_Witness ==
    /\ pc = "makedirs"
    /\ total_frames = 0
    /\ Len(footage) = MaxFrames
    /\ Cardinality(screencaps) = MaxFrames
    /\ faces # {}

\* C18: when output/<stem>/screencaps exists at the start of the promotion of
\* a video, neither step of the promotion changes anything under output/<stem>,
\* and the first copytree ends the promotion with an exception.
C18_ExistingOutputKept ==
    [][(pc \in {"makedirs", "copy_screencaps"} /\ out[video_output_dir].screencaps.present)
         => /\ out' = out
            /\ (pc = "copy_screencaps") => (pc' = "crashed" /\ error' = "PromotionFailure")]_vars

\* the promotion of a streamed video failed on the output of an earlier run,
\* which is as it was
C18_Witness ==
    /\ pc = "crashed"
    /\ error = "PromotionFailure"
    /\ vi = 1
    /\ screencaps # {}
    /\ out[video_output_dir] = PriorOutput

====
